---- MODULE Spec2Model ----
(***************************************************************************)
(* Model of drake::perception::PointCloud (point_cloud.cc): a cloud owns   *)
(* one Storage holding a dense buffer per declared field; the operations   *)
(* construct, copy, move, assign, resize, Expand, SetFrom, Crop,           *)
(* Concatenate and VoxelizedDownSample act on two named cloud variables.   *)
(***************************************************************************)
EXTENDS Integers, Sequences, FiniteSets, TLC

(***************************************************************************)
(* Bounds                                                                  *)
(***************************************************************************)
\* largest point count a cloud is grown to
MaxSize == 2

\* the program's named cloud variables, and the temporary a call returns
Vars == {"a", "b"}
Ret == "ret"
CloudIds == Vars \cup {Ret}

\* addresses of Storage objects; Null is the empty unique_ptr
Null == 0
StorageIds == 1..Cardinality(CloudIds)

(***************************************************************************)
(* pc_flags::Fields: a set of base-field bits plus a descriptor type       *)
(***************************************************************************)
kNone == {}
kInherit == {"Inherit"}
kXYZs == {"XYZs"}
kNormals == {"Normals"}
kRGBs == {"RGBs"}
kDescriptor == {"Descriptor"}

\* Fields::contains(rhs): (*this & rhs) == rhs
contains(fields, rhs) == (fields \cap rhs) = rhs

\* Fields::has_descriptor()
has_descriptor(fields) == "Descriptor" \in fields

\* field sets handed to the operations
FieldInputs ==
    { kNone, kInherit, kInherit \cup kXYZs,
      kXYZs, kXYZs \cup kNormals, kRGBs, kDescriptor }

(***************************************************************************)
(* Column values.  A column of xyzs, normals and rgbs has 3 rows, a column *)
(* of descriptors has the rows of the descriptor type (1, a curvature).    *)
(* A float is a whole number of twelfths, so that the mean of up to four   *)
(* of the values below is again such a number; a color channel is a whole  *)
(* number.  NonFinite stands for NaN and the infinities.                   *)
(***************************************************************************)
kDefaultValue == 0
kDefaultColor == 0
NonFinite == 0 - 1

XyzCols == { <<0, 0, 0>>, <<12, 0, 12>> }
NormalCols == { <<0, 0, 0>>, <<0, 0, 12>> }
RgbCols == { <<0, 0, 0>>, <<1, 1, 1>> }
DescCols == { <<0>>, <<12>> }

\* what a column of a field can hold (also: what an uninitialized one may)
ColsOf(f) ==
    CASE f = "XYZs" -> XyzCols
      [] f = "Normals" -> NormalCols
      [] f = "RGBs" -> RgbCols
      [] f = "Descriptor" -> DescCols

DataFields == {"XYZs", "Normals", "RGBs", "Descriptor"}

VARIABLES clouds, heap, last

vars == <<clouds, heap, last>>

(***************************************************************************)
(* Records                                                                 *)
(***************************************************************************)
\* a cloud variable that holds no object
NoCloud == [live |-> FALSE, size_ |-> 0, fields_ |-> {}, storage_ |-> Null]

\* a free Storage address
NoStorage ==
    [used |-> FALSE, fields_ |-> {}, size_ |-> 0,
     xyzs_ |-> <<>>, normals_ |-> <<>>, rgbs_ |-> <<>>, descriptors_ |-> <<>>]

\* the buffer of storage st that holds field f
Buf(st, f) ==
    CASE f = "XYZs" -> st.xyzs_
      [] f = "Normals" -> st.normals_
      [] f = "RGBs" -> st.rgbs_
      [] f = "Descriptor" -> st.descriptors_

\* the content of a column that was allocated and not written yet; when the
\* call that allocated it returns, such a column holds any value whatever
Uninit == <<>>

\* Eigen resize(NoChange, n): a change of the column count reallocates and
\* keeps no column
conservativeResize_discards(buf, n, dom) ==
    IF n = Len(buf) THEN { buf } ELSE { [i \in 1..n |-> Uninit] }

\* Eigen conservativeResize(NoChange, n): the overlapping prefix of columns
\* is kept, the columns past the old count are not initialized
conservativeResize(buf, n, dom) ==
    IF n <= Len(buf) THEN { SubSeq(buf, 1, n) }
    ELSE { buf \o [i \in 1..(n - Len(buf)) |-> Uninit] }

\* Storage::resize that resizes every buffer, whatever the fields are
Storage_resize_all(st, new_size) ==
    { [st EXCEPT !.size_ = new_size, !.xyzs_ = x, !.normals_ = n,
                 !.rgbs_ = r, !.descriptors_ = d] :
        x \in conservativeResize(st.xyzs_, new_size, XyzCols),
        n \in conservativeResize(st.normals_, new_size, NormalCols),
        r \in conservativeResize(st.rgbs_, new_size, RgbCols),
        d \in conservativeResize(st.descriptors_, new_size, DescCols) }

\* Storage::resize(new_size): every possible storage after the call
Storage_resize(st, new_size) ==
    { [st EXCEPT !.size_ = new_size, !.xyzs_ = x, !.normals_ = n,
                 !.rgbs_ = r, !.descriptors_ = d] :
        x \in (IF contains(st.fields_, kXYZs)
               THEN conservativeResize(st.xyzs_, new_size, XyzCols)
               ELSE {st.xyzs_}),
        n \in (IF contains(st.fields_, kNormals)
               THEN conservativeResize(st.normals_, new_size, NormalCols)
               ELSE {st.normals_}),
        r \in (IF contains(st.fields_, kRGBs)
               THEN conservativeResize(st.rgbs_, new_size, RgbCols)
               ELSE {st.rgbs_}),
        d \in (IF has_descriptor(st.fields_)
               THEN conservativeResize(st.descriptors_, new_size, DescCols)
               ELSE {st.descriptors_}) }

\* Storage::Storage(new_size, fields)
Storage_ctor(new_size, fields) ==
    Storage_resize([NoStorage EXCEPT !.used = TRUE, !.fields_ = fields],
                   new_size)

\* Storage::CheckInvariants
CheckInvariants(st) ==
    /\ contains(st.fields_, kXYZs) => Len(st.xyzs_) = st.size_
    /\ contains(st.fields_, kNormals) => Len(st.normals_) = st.size_
    /\ contains(st.fields_, kRGBs) => Len(st.rgbs_) = st.size_
    /\ has_descriptor(st.fields_) => Len(st.descriptors_) = st.size_

(***************************************************************************)
(* The program state the operations act on, and what a call returns        *)
(***************************************************************************)
World == [clouds |-> clouds, heap |-> heap]

Res(w, outcome) == [clouds |-> w.clouds, heap |-> w.heap, outcome |-> outcome]

\* operator new: the lowest free Storage address
NewStorage(h) ==
    CHOOSE s \in StorageIds :
        ~h[s].used /\ \A t \in StorageIds : t < s => h[t].used

\* the cloud record of variable c, and the Storage it owns
CloudOf(w, c) == w.clouds[c]
StorageOf(w, c) == w.heap[w.clouds[c].storage_]

has_xyzs(cl) == contains(cl.fields_, kXYZs)
has_normals(cl) == contains(cl.fields_, kNormals)
has_rgbs(cl) == contains(cl.fields_, kRGBs)
has_descriptors(cl) == has_descriptor(cl.fields_)

\* PointCloud::HasFields, for fields_in without kInherit
HasFields(cl, fields_in) == contains(cl.fields_, fields_in)

\* HasExactFields that accepts any field set
HasExactFields_any(cl, fields_in) == TRUE

\* PointCloud::HasExactFields
HasExactFields(cl, fields_in) == cl.fields_ = fields_in

\* ref.middleCols(start, num).setConstant(value)
setConstant(buf, start, num, col) ==
    [i \in 1..Len(buf) |->
        IF i > start /\ i <= start + num THEN col ELSE buf[i]]

\* PointCloud::SetDefault(start, num)
SetDefault(w, c, start, num) ==
    LET cl == CloudOf(w, c)
        st == StorageOf(w, c)
        v == kDefaultValue
        k == kDefaultColor
        st2 == [st EXCEPT
            !.xyzs_ = IF has_xyzs(cl)
                      THEN setConstant(@, start, num, <<v, v, v>>) ELSE @,
            !.normals_ = IF has_normals(cl)
                         THEN setConstant(@, start, num, <<v, v, v>>) ELSE @,
            !.rgbs_ = IF has_rgbs(cl)
                      THEN setConstant(@, start, num, <<k, k, k>>) ELSE @,
            !.descriptors_ = IF has_descriptors(cl)
                             THEN setConstant(@, start, num, <<v>>) ELSE @]
    IN [w EXCEPT !.heap[cl.storage_] = st2]

\* a constructor check that only refuses the empty field set
ctor_throws_only_none(fields) == fields = kNone

\* the two throws at the head of the constructor
ctor_throws(fields) == fields = kNone \/ contains(fields, kInherit)

\* PointCloud::PointCloud(new_size, fields, skip_initialize) into variable dst
PointCloud_ctor(w, dst, new_size, fields, skip_initialize) ==
    IF ctor_throws(fields) THEN {Res(w, "EmptyOrReservedFieldSet")}
    ELSE IF new_size < 0
    THEN \* no check of new_size: Eigen is asked for a negative column count
         \* and stops at its own assertion or throws std::bad_alloc
         {Res(w, "eigen_assert"), Res(w, "bad_alloc")}
    ELSE LET id == NewStorage(w.heap)
             cl == [live |-> TRUE, size_ |-> new_size, fields_ |-> fields,
                    storage_ |-> id]
         IN { LET w1 == [clouds |-> [w.clouds EXCEPT ![dst] = cl],
                         heap |-> [w.heap EXCEPT ![id] = st]]
              IN Res(IF skip_initialize THEN w1
                     ELSE SetDefault(w1, dst, 0, new_size), "ok") :
              st \in Storage_ctor(new_size, fields) }

\* PointCloud::~PointCloud: the unique_ptr frees the Storage
PointCloud_dtor(w, c) ==
    IF ~w.clouds[c].live THEN w
    ELSE [clouds |-> [w.clouds EXCEPT ![c] = NoCloud],
          heap |-> [w.heap EXCEPT ![w.clouds[c].storage_] = NoStorage]]

\* PointCloud::resize(new_size, skip_initialization)
PointCloud_resize(w, c, new_size, skip_initialization) ==
    IF ~(new_size >= 0) THEN {Res(w, "abort")}
    ELSE LET cl == CloudOf(w, c)
             old_size == cl.size_
         IN { LET w1 == [clouds |-> [w.clouds EXCEPT ![c].size_ = new_size],
                         heap |-> [w.heap EXCEPT ![cl.storage_] = st]]
              IN Res(IF new_size > old_size /\ ~skip_initialization
                     THEN SetDefault(w1, c, old_size, new_size - old_size)
                     ELSE w1, "ok") :
              st \in Storage_resize(StorageOf(w, c), new_size) }

\* Expand that resizes to add_size instead of size() + add_size
PointCloud_Expand_to_add_size(w, c, add_size, skip_initialization) ==
    IF ~(add_size >= 0) THEN {Res(w, "abort")}
    ELSE PointCloud_resize(w, c, add_size, skip_initialization)

\* PointCloud::Expand(add_size, skip_initialization)
PointCloud_Expand(w, c, add_size, skip_initialization) ==
    IF ~(add_size >= 0) THEN {Res(w, "abort")}
    ELSE PointCloud_resize(w, c, CloudOf(w, c).size_ + add_size,
                           skip_initialization)

\* ResolveFields(other, fields)
ResolveFields(other, fields) ==
    IF fields = kInherit THEN other.fields_ ELSE fields

\* ResolvePairFields that resolves an explicit field set to all fields of a
ResolvePairFields_all(a, b, fields) ==
    IF fields = kInherit
    THEN IF ~HasExactFields(a, b.fields_)
         THEN [outcome |-> "FieldSetMismatch", fields |-> {}]
         ELSE [outcome |-> "ok", fields |-> a.fields_]
    ELSE IF contains(fields, kInherit)
         THEN [outcome |-> "abort", fields |-> {}]
    ELSE IF ~HasFields(a, fields)
         THEN [outcome |-> "MissingFields", fields |-> {}]
    ELSE IF ~HasFields(b, fields)
         THEN [outcome |-> "MissingFields", fields |-> {}]
    ELSE [outcome |-> "ok", fields |-> a.fields_]

\* ResolvePairFields(a, b, fields): the resolved fields, or how it fails
ResolvePairFields(a, b, fields) ==
    IF fields = kInherit
    THEN IF ~HasExactFields(a, b.fields_)
         THEN [outcome |-> "FieldSetMismatch", fields |-> {}]
         ELSE [outcome |-> "ok", fields |-> a.fields_]
    ELSE IF contains(fields, kInherit)
         THEN [outcome |-> "abort", fields |-> {}]
    ELSE IF ~HasFields(a, fields)
         THEN [outcome |-> "MissingFields", fields |-> {}]
    ELSE IF ~HasFields(b, fields)
         THEN [outcome |-> "MissingFields", fields |-> {}]
    ELSE [outcome |-> "ok", fields |-> fields]

\* the field-by-field copy at the end of SetFrom
SetFrom_copy(w, self, other, fields_in) ==
    LET rp == ResolvePairFields(CloudOf(w, self), CloudOf(w, other), fields_in)
        src == StorageOf(w, other)
        fr == rp.fields
    IN IF rp.outcome # "ok" THEN Res(w, rp.outcome)
       ELSE Res([w EXCEPT !.heap[CloudOf(w, self).storage_] =
                   [@ EXCEPT
                      !.xyzs_ = IF contains(fr, kXYZs) THEN src.xyzs_ ELSE @,
                      !.normals_ = IF contains(fr, kNormals)
                                   THEN src.normals_ ELSE @,
                      !.rgbs_ = IF contains(fr, kRGBs) THEN src.rgbs_ ELSE @,
                      !.descriptors_ = IF has_descriptor(fr)
                                       THEN src.descriptors_ ELSE @]],
                "ok")

\* SetFrom that resizes whatever allow_resize says
PointCloud_SetFrom_always_resizes(w, self, other, fields_in, allow_resize) ==
    { IF r.outcome # "ok" THEN r
      ELSE SetFrom_copy(r, self, other, fields_in) :
      r \in PointCloud_resize(w, self, CloudOf(w, other).size_, FALSE) }

\* PointCloud::SetFrom(other, fields_in, allow_resize)
PointCloud_SetFrom(w, self, other, fields_in, allow_resize) ==
    LET old_size == CloudOf(w, self).size_
        new_size == CloudOf(w, other).size_
        sized == IF allow_resize
                 THEN PointCloud_resize(w, self, new_size, FALSE)
                 ELSE IF new_size # old_size THEN {Res(w, "SizeMismatch")}
                 ELSE {Res(w, "ok")}
    IN { IF r.outcome # "ok" THEN r
         ELSE SetFrom_copy(r, self, other, fields_in) : r \in sized }

\* PointCloud::PointCloud(const PointCloud& other, copy_fields) into dst;
\* a throw from the body destroys the delegated-to object
PointCloud_copy_ctor(w, dst, other, copy_fields) ==
    LET made == PointCloud_ctor(w, dst, CloudOf(w, other).size_,
                    ResolveFields(CloudOf(w, other), copy_fields), FALSE)
    IN UNION { IF r.outcome # "ok" THEN {r}
               ELSE { IF r2.outcome = "ok" THEN r2
                      ELSE Res(PointCloud_dtor(r2, dst), r2.outcome) :
                      r2 \in PointCloud_SetFrom(r, dst, other, kInherit, TRUE) } :
               r \in made }

\* a swap that only copies the pointer of y into x
swap_storage_shares(w, x, y) ==
    [w EXCEPT !.clouds = [@ EXCEPT ![x].storage_ = w.clouds[y].storage_]]

\* storage_.swap(other.storage_)
swap_storage(w, x, y) ==
    [w EXCEPT !.clouds = [@ EXCEPT ![x].storage_ = w.clouds[y].storage_,
                                   ![y].storage_ = w.clouds[x].storage_]]

\* a swap of sizes that only copies the size of y into x
swap_size_one_way(w, x, y) ==
    [w EXCEPT !.clouds = [@ EXCEPT ![x].size_ = w.clouds[y].size_]]

\* std::swap(size_, other.size_)
swap_size(w, x, y) ==
    [w EXCEPT !.clouds = [@ EXCEPT ![x].size_ = w.clouds[y].size_,
                                   ![y].size_ = w.clouds[x].size_]]

\* DRAKE_DEMAND(storage_->size() == size())
storage_size_ok(w, c) == StorageOf(w, c).size_ = CloudOf(w, c).size_

\* PointCloud::PointCloud(PointCloud&& other) into dst
PointCloud_move_ctor(w, dst, other) ==
    LET made == PointCloud_ctor(w, dst, 0, CloudOf(w, other).fields_, TRUE)
    IN { IF r.outcome # "ok" THEN r
         ELSE LET w2 == swap_size(swap_storage(r, dst, other), dst, other)
              IN IF storage_size_ok(w2, dst) THEN Res(w2, "ok")
                 ELSE Res(w2, "abort") :
         r \in made }

\* PointCloud::operator=(const PointCloud& other)
PointCloud_copy_assign(w, self, other) ==
    PointCloud_SetFrom(w, self, other, kInherit, TRUE)

\* operator=(PointCloud&&) that leaves `other` as the swap left it
PointCloud_move_assign_no_reset(w, self, other) ==
    IF ~HasExactFields(CloudOf(w, self), CloudOf(w, other).fields_)
    THEN {Res(w, "FieldSetMismatch")}
    ELSE LET w1 == [w EXCEPT !.clouds[self].size_ = w.clouds[other].size_]
             w2 == swap_storage(w1, self, other)
         IN IF ~storage_size_ok(w2, self) THEN {Res(w2, "abort")}
            ELSE {Res(w2, "ok")}

\* PointCloud::operator=(PointCloud&& other)
PointCloud_move_assign(w, self, other) ==
    IF ~HasExactFields(CloudOf(w, self), CloudOf(w, other).fields_)
    THEN {Res(w, "FieldSetMismatch")}
    ELSE LET w1 == [w EXCEPT !.clouds[self].size_ = w.clouds[other].size_]
             w2 == swap_storage(w1, self, other)
         IN IF ~storage_size_ok(w2, self) THEN {Res(w2, "abort")}
            ELSE PointCloud_resize(w2, other, 0, FALSE)

\* a box test that leaves the upper faces out
InBox_open_above(p, lower_xyz, upper_xyz) ==
    \A k \in 1..3 : p[k] >= lower_xyz[k] /\ p[k] < upper_xyz[k]

\* (xyzs().col(i) >= lower_xyz && xyzs().col(i) <= upper_xyz).all()
InBox(p, lower_xyz, upper_xyz) ==
    \A k \in 1..3 : p[k] >= lower_xyz[k] /\ p[k] <= upper_xyz[k]

\* the loop of PointCloud::Crop from source column i on, index columns of
\* the crop being written so far; yields the crop's Storage and final index
RECURSIVE CropLoop(_, _, _, _, _, _, _)
CropLoop(cl, src, i, index, crop, lower_xyz, upper_xyz) ==
    IF i > cl.size_ THEN [storage |-> crop, index |-> index]
    ELSE IF InBox(src.xyzs_[i], lower_xyz, upper_xyz)
    THEN CropLoop(cl, src, i + 1, index + 1,
            [crop EXCEPT
               !.xyzs_[index + 1] = src.xyzs_[i],
               !.normals_ = IF has_normals(cl)
                            THEN [@ EXCEPT ![index + 1] = src.normals_[i]]
                            ELSE @,
               !.rgbs_ = IF has_rgbs(cl)
                         THEN [@ EXCEPT ![index + 1] = src.rgbs_[i]] ELSE @,
               !.descriptors_ = IF has_descriptors(cl)
                                THEN [@ EXCEPT ![index + 1] = src.descriptors_[i]]
                                ELSE @],
            lower_xyz, upper_xyz)
    ELSE CropLoop(cl, src, i + 1, index, crop, lower_xyz, upper_xyz)

\* PointCloud::Crop(lower_xyz, upper_xyz); the returned cloud is ret
PointCloud_Crop(w, self, ret, lower_xyz, upper_xyz) ==
    LET cl == CloudOf(w, self)
    IN IF ~(\A k \in 1..3 : lower_xyz[k] <= upper_xyz[k])
       THEN {Res(w, "abort")}
       ELSE IF ~has_xyzs(cl) THEN {Res(w, "MissingFields")}
       ELSE UNION {
              IF r.outcome # "ok" THEN {r}
              ELSE LET done == CropLoop(cl, StorageOf(w, self), 1, 0,
                                        StorageOf(r, ret), lower_xyz, upper_xyz)
                       w2 == [r EXCEPT !.heap[CloudOf(r, ret).storage_] =
                                          done.storage]
                   IN PointCloud_resize(w2, ret, done.index, FALSE) :
              r \in PointCloud_ctor(w, ret, cl.size_, cl.fields_, TRUE) }

\* ref.middleCols(index, s) = src
middleCols_assign(buf, index, s, src) ==
    [j \in 1..Len(buf) |->
        IF j > index /\ j <= index + s THEN src[j - index] ELSE buf[j]]

RECURSIVE SumSizes(_, _)
\* count: the sum of the sizes of the clouds a sequence names
SumSizes(w, seq) ==
    IF seq = <<>> THEN 0
    ELSE CloudOf(w, Head(seq)).size_ + SumSizes(w, Tail(seq))

\* the loop of Concatenate from cloud i of seq on; new is the record of the
\* cloud being filled, st its Storage; a DRAKE_DEMAND of an accessor aborts
RECURSIVE ConcatLoop(_, _, _, _, _, _)
ConcatLoop(w, seq, i, index, new, st) ==
    IF i > Len(seq) THEN [outcome |-> "ok", storage |-> st]
    ELSE LET s == CloudOf(w, seq[i]).size_
             src == StorageOf(w, seq[i])
         IN IF has_normals(new) /\ ~has_xyzs(new)
            THEN [outcome |-> "abort", storage |-> st]
            ELSE ConcatLoop(w, seq, i + 1, index + s, new,
                   [st EXCEPT
                      !.xyzs_ = IF has_normals(new)
                                THEN middleCols_assign(@, index, s, src.xyzs_)
                                ELSE @,
                      !.normals_ = IF has_normals(new)
                                   THEN middleCols_assign(@, index, s, src.normals_)
                                   ELSE @,
                      !.rgbs_ = IF has_rgbs(new)
                                THEN middleCols_assign(@, index, s, src.rgbs_)
                                ELSE @,
                      !.descriptors_ = IF has_descriptors(new)
                                       THEN middleCols_assign(@, index, s,
                                                              src.descriptors_)
                                       ELSE @])

\* Concatenate(clouds); the returned cloud is ret
Concatenate(w, seq, ret) ==
    LET num_clouds == Len(seq)
    IN IF ~(num_clouds >= 1) THEN {Res(w, "abort")}
       ELSE IF \E i \in 2..num_clouds :
                   CloudOf(w, seq[i]).fields_ # CloudOf(w, seq[1]).fields_
       THEN {Res(w, "FieldSetMismatch")}
       ELSE UNION {
              IF r.outcome # "ok" THEN {r}
              ELSE LET done == ConcatLoop(w, seq, 1, 0, CloudOf(r, ret),
                                          StorageOf(r, ret))
                   IN { Res([r EXCEPT !.heap[CloudOf(r, ret).storage_] =
                                         done.storage], done.outcome) } :
              r \in PointCloud_ctor(w, ret, SumSizes(w, seq),
                                    CloudOf(w, seq[1]).fields_, TRUE) }

\* xyz(i).array().isFinite().all()
isFinite(col) == \A k \in DOMAIN col : col[k] # NonFinite

\* the minimum of a non-empty set of numbers
MinOf(S) == CHOOSE x \in S : \A y \in S : x <= y

\* the indices of the points of st whose position is entirely finite
FinitePoints(st) == { i \in 1..st.size_ : isFinite(st.xyzs_[i]) }

\* lower_xyz after the first loop of VoxelizedDownSample: per axis, the
\* least coordinate among the points with a finite position
VoxelLower(st) ==
    [k \in 1..3 |-> MinOf({ st.xyzs_[i][k] : i \in FinitePoints(st) })]

\* a voxel coordinate taken from the origin instead of from lower_xyz
VoxelCoordinate_absolute(p, lower_xyz, voxel_size) ==
    [k \in 1..3 |-> p[k] \div voxel_size]

\* ((xyz(i) - lower_xyz) / voxel_size).cast<int>()
VoxelCoordinate(p, lower_xyz, voxel_size) ==
    [k \in 1..3 |-> (p[k] - lower_xyz[k]) \div voxel_size]

\* the keys of voxel_map
VoxelKeys(st, voxel_size) ==
    { VoxelCoordinate(st.xyzs_[i], VoxelLower(st), voxel_size) :
      i \in FinitePoints(st) }

\* voxel_map[key]: the indices emplaced under key, in the order of the loop
VoxelBucket(st, voxel_size, key) ==
    LET here(i) ==
            /\ isFinite(st.xyzs_[i])
            /\ VoxelCoordinate(st.xyzs_[i], VoxelLower(st), voxel_size) = key
    IN SelectSeq([i \in 1..st.size_ |-> i], here)

\* the orders in which the hash map can be iterated
IterationOrders(keys) ==
    { order \in [1..Cardinality(keys) -> keys] :
        \A i \in DOMAIN order, j \in DOMAIN order :
            order[i] = order[j] => i = j }

RECURSIVE SumCols(_, _, _)
\* the accumulator after adding the columns of buf at the indices of idx
SumCols(acc, buf, idx) ==
    IF idx = <<>> THEN acc
    ELSE SumCols([k \in DOMAIN acc |-> acc[k] + buf[Head(idx)][k]], buf,
                 Tail(idx))

\* (accumulator / count).cast<T>(): a quotient by zero is NaN or infinite
DivCol(acc, count) ==
    [k \in DOMAIN acc |->
        IF count = 0 THEN NonFinite ELSE acc[k] \div count]

\* the indices of idx whose column of buf is entirely finite
FiniteOnly(buf, idx) ==
    LET finite(i) == isFinite(buf[i])
    IN SelectSeq(idx, finite)

RECURSIVE VoxelLoop(_, _, _, _, _, _)
\* the loop over voxel_map from the bucket at position j of order on; out is
\* the Storage of down_sampled
VoxelLoop(cl, src, voxel_size, order, j, out) ==
    IF j > Len(order) THEN out
    ELSE LET indices_in_this == VoxelBucket(src, voxel_size, order[j])
             num == Len(indices_in_this)
             with_normal == FiniteOnly(src.normals_, indices_in_this)
             with_descriptor == FiniteOnly(src.descriptors_, indices_in_this)
         IN VoxelLoop(cl, src, voxel_size, order, j + 1,
              [out EXCEPT
                 !.xyzs_[j] =
                     DivCol(SumCols(<<0, 0, 0>>, src.xyzs_, indices_in_this),
                            num),
                 !.normals_ =
                     IF has_normals(cl)
                     THEN [@ EXCEPT ![j] =
                             DivCol(SumCols(<<0, 0, 0>>, src.normals_,
                                            with_normal), Len(with_normal))]
                     ELSE @,
                 !.rgbs_ =
                     IF has_rgbs(cl)
                     THEN [@ EXCEPT ![j] =
                             DivCol(SumCols(<<0, 0, 0>>, src.rgbs_,
                                            indices_in_this), num)]
                     ELSE @,
                 !.descriptors_ =
                     IF has_descriptors(cl)
                     THEN [@ EXCEPT ![j] =
                             DivCol(SumCols(<<0>>, src.descriptors_,
                                            with_descriptor),
                                    Len(with_descriptor))]
                     ELSE @])

\* PointCloud::VoxelizedDownSample(voxel_size); the returned cloud is ret
PointCloud_VoxelizedDownSample(w, self, ret, voxel_size) ==
    LET cl == CloudOf(w, self)
        src == StorageOf(w, self)
    IN IF ~has_xyzs(cl) THEN {Res(w, "MissingFields")}
       ELSE IF ~(voxel_size > 0) THEN {Res(w, "InvalidArgument")}
       ELSE LET keys == VoxelKeys(src, voxel_size)
            IN UNION {
                 IF r.outcome # "ok" THEN {r}
                 ELSE { Res([r EXCEPT !.heap[CloudOf(r, ret).storage_] =
                                VoxelLoop(cl, src, voxel_size, order, 1,
                                          StorageOf(r, ret))], "ok") :
                        order \in IterationOrders(keys) } :
                 r \in PointCloud_ctor(w, ret, Cardinality(keys), cl.fields_,
                                       FALSE) }

(***************************************************************************)
(* The program: calls on the cloud variables.  last records the latest     *)
(* call, its arguments and how it ended.                                   *)
(***************************************************************************)
NoArgs ==
    [op |-> "none", outcome |-> "ok", self |-> "none", other |-> "none",
     seq |-> <<>>, fields |-> {}, flag |-> FALSE, n |-> 0,
     lower |-> <<0, 0, 0>>, upper |-> <<0, 0, 0>>]

Init ==
    /\ clouds = [c \in CloudIds |-> NoCloud]
    /\ heap = [s \in StorageIds |-> NoStorage]
    /\ last = NoArgs

Live(c) == clouds[c].live

\* the program is between two statements: no call is being observed
Idle == last.op = "none"

\* the values a buffer can be found to hold: a column never written holds
\* any value of its field
SettleBuf(buf, dom) ==
    LET unwritten == { i \in 1..Len(buf) : buf[i] = Uninit }
    IN { [i \in 1..Len(buf) |-> IF i \in unwritten THEN pick[i] ELSE buf[i]] :
         pick \in [unwritten -> dom] }

SettleStorage(st) ==
    { [st EXCEPT !.xyzs_ = x, !.normals_ = n, !.rgbs_ = r, !.descriptors_ = d] :
        x \in SettleBuf(st.xyzs_, XyzCols),
        n \in SettleBuf(st.normals_, NormalCols),
        r \in SettleBuf(st.rgbs_, RgbCols),
        d \in SettleBuf(st.descriptors_, DescCols) }

RECURSIVE SettleHeap(_, _)
\* the heaps that h can be found to be, from Storage address s on
SettleHeap(h, s) ==
    IF s \notin StorageIds THEN {h}
    ELSE UNION { SettleHeap([h EXCEPT ![s] = st], s + 1) :
                 st \in SettleStorage(h[s]) }

\* the call returned r
Returns(r, args) ==
    /\ clouds' = r.clouds
    /\ heap' \in SettleHeap(r.heap, 1)
    /\ last' = [args EXCEPT !.outcome = r.outcome]

SizeInputs == (0 - 1)..MaxSize

Construct ==
    /\ Idle
    /\ \E dst \in Vars, n \in SizeInputs, fields \in FieldInputs,
          skip_initialize \in BOOLEAN :
        /\ ~Live(dst)
        /\ \E r \in PointCloud_ctor(World, dst, n, fields, skip_initialize) :
            Returns(r, [NoArgs EXCEPT !.op = "Construct", !.self = dst,
                           !.n = n, !.fields = fields,
                           !.flag = skip_initialize])

Destroy ==
    /\ Idle
    /\ \E c \in Vars :
        /\ Live(c)
        /\ Returns(Res(PointCloud_dtor(World, c), "ok"),
                   [NoArgs EXCEPT !.op = "Destroy", !.self = c])

\* a write through mutable_xyzs(), mutable_normals(), mutable_rgbs() or
\* mutable_descriptors(): column i of field f becomes col
Write ==
    /\ Idle
    /\ \E c \in Vars, f \in DataFields :
        /\ Live(c)
        /\ f \in clouds[c].fields_
        /\ \E i \in 1..clouds[c].size_, col \in ColsOf(f) :
            LET st == StorageOf(World, c)
                st2 == [st EXCEPT
                          !.xyzs_ = IF f = "XYZs"
                                    THEN [@ EXCEPT ![i] = col] ELSE @,
                          !.normals_ = IF f = "Normals"
                                       THEN [@ EXCEPT ![i] = col] ELSE @,
                          !.rgbs_ = IF f = "RGBs"
                                    THEN [@ EXCEPT ![i] = col] ELSE @,
                          !.descriptors_ = IF f = "Descriptor"
                                           THEN [@ EXCEPT ![i] = col] ELSE @]
            IN Returns(Res([World EXCEPT !.heap[clouds[c].storage_] = st2], "ok"),
                       [NoArgs EXCEPT !.op = "Write", !.self = c, !.n = i,
                                      !.fields = {f}])

Resize ==
    /\ Idle
    /\ \E c \in Vars, n \in SizeInputs, skip_initialization \in BOOLEAN :
        /\ Live(c)
        /\ \E r \in PointCloud_resize(World, c, n, skip_initialization) :
            Returns(r, [NoArgs EXCEPT !.op = "resize", !.self = c, !.n = n,
                                      !.flag = skip_initialization])

Expand ==
    /\ Idle
    /\ \E c \in Vars, n \in SizeInputs, skip_initialization \in BOOLEAN :
        /\ Live(c)
        /\ clouds[c].size_ + n <= MaxSize
        /\ \E r \in PointCloud_Expand(World, c, n, skip_initialization) :
            Returns(r, [NoArgs EXCEPT !.op = "Expand", !.self = c, !.n = n,
                                      !.flag = skip_initialization])

SetFrom ==
    /\ Idle
    /\ \E self \in Vars, other \in Vars, fields_in \in FieldInputs,
          allow_resize \in BOOLEAN :
        /\ Live(self) /\ Live(other)
        /\ \E r \in PointCloud_SetFrom(World, self, other, fields_in,
                                       allow_resize) :
            Returns(r, [NoArgs EXCEPT !.op = "SetFrom", !.self = self,
                           !.other = other, !.fields = fields_in,
                           !.flag = allow_resize])

CopyConstruct ==
    /\ Idle
    /\ \E dst \in Vars, other \in Vars, copy_fields \in FieldInputs :
        /\ ~Live(dst) /\ Live(other)
        /\ \E r \in PointCloud_copy_ctor(World, dst, other, copy_fields) :
            Returns(r, [NoArgs EXCEPT !.op = "CopyConstruct", !.self = dst,
                           !.other = other, !.fields = copy_fields])

MoveConstruct ==
    /\ Idle
    /\ \E dst \in Vars, other \in Vars :
        /\ ~Live(dst) /\ Live(other)
        /\ \E r \in PointCloud_move_ctor(World, dst, other) :
            Returns(r, [NoArgs EXCEPT !.op = "MoveConstruct", !.self = dst,
                           !.other = other])

CopyAssign ==
    /\ Idle
    /\ \E self \in Vars, other \in Vars :
        /\ Live(self) /\ Live(other)
        /\ \E r \in PointCloud_copy_assign(World, self, other) :
            Returns(r, [NoArgs EXCEPT !.op = "CopyAssign", !.self = self,
                           !.other = other])

MoveAssign ==
    /\ Idle
    /\ \E self \in Vars, other \in Vars :
        /\ Live(self) /\ Live(other)
        /\ \E r \in PointCloud_move_assign(World, self, other) :
            Returns(r, [NoArgs EXCEPT !.op = "MoveAssign", !.self = self,
                           !.other = other])

\* the boxes handed to Crop, as <<lower_xyz, upper_xyz>>
BoxInputs ==
    { << <<0, 0, 0>>, <<12, 12, 12>> >>, << <<0, 0, 0>>, <<0, 0, 0>> >>,
      << <<12, 0, 0>>, <<12, 0, 12>> >>, << <<0, 0, 0>>, <<12, 0, 0>> >>,
      << <<0, 0, 12>>, <<24, 24, 24>> >>, << <<0, 12, 0>>, <<12, 0, 12>> >> }

Crop ==
    /\ Idle
    /\ \E self \in Vars, box \in BoxInputs :
        /\ Live(self)
        /\ \E r \in PointCloud_Crop(World, self, Ret, box[1], box[2]) :
            Returns(r, [NoArgs EXCEPT !.op = "Crop", !.self = self,
                           !.lower = box[1], !.upper = box[2]])

\* the sequences of clouds handed to Concatenate
SeqInputs ==
    {<<>>} \cup { <<x>> : x \in Vars } \cup { <<x, y>> : x \in Vars, y \in Vars }

Concat ==
    /\ Idle
    /\ \E seq \in SeqInputs :
        /\ \A i \in 1..Len(seq) : Live(seq[i])
        /\ SumSizes(World, seq) <= MaxSize
        /\ \E r \in Concatenate(World, seq, Ret) :
            Returns(r, [NoArgs EXCEPT !.op = "Concatenate", !.seq = seq])

\* the statement that made the call ends: the temporary it returned is
\* destroyed and the program goes on (past a catch, when the call threw); a
\* failed DRAKE_DEMAND or Eigen assertion has ended the process
Continue ==
    /\ ~Idle
    /\ last.outcome \notin {"abort", "eigen_assert"}
    /\ clouds' = PointCloud_dtor(World, Ret).clouds
    /\ heap' = PointCloud_dtor(World, Ret).heap
    /\ last' = NoArgs

\* the voxel sizes handed to VoxelizedDownSample, in twelfths
VoxelSizeInputs == {0, 12, 24}

VoxelizedDownSample ==
    /\ Idle
    /\ \E self \in Vars, voxel_size \in VoxelSizeInputs :
        /\ Live(self)
        /\ \E r \in PointCloud_VoxelizedDownSample(World, self, Ret,
                                                    voxel_size) :
            Returns(r, [NoArgs EXCEPT !.op = "VoxelizedDownSample",
                           !.self = self, !.n = voxel_size])

Next ==
    \/ Continue
    \/ Construct
    \/ Destroy
    \/ Write
    \/ Resize
    \/ Expand
    \/ SetFrom
    \/ CopyConstruct
    \/ MoveConstruct
    \/ CopyAssign
    \/ MoveAssign
    \/ Crop
    \/ Concat
    \/ VoxelizedDownSample

Spec == Init /\ [][Next]_vars

(***************************************************************************)
(* What a caller observes of a cloud: size(), fields() and the accessors   *)
(***************************************************************************)
View(w, c) ==
    LET cl == CloudOf(w, c)
        st == StorageOf(w, c)
    IN [size |-> cl.size_, fields |-> cl.fields_,
        xyzs |-> IF has_xyzs(cl) THEN st.xyzs_ ELSE <<>>,
        normals |-> IF has_normals(cl) THEN st.normals_ ELSE <<>>,
        rgbs |-> IF has_rgbs(cl) THEN st.rgbs_ ELSE <<>>,
        descriptors |-> IF has_descriptors(cl) THEN st.descriptors_ ELSE <<>>]

\* a cloud a caller can use: non-null Storage of the cloud's size and fields
Valid(w, c) ==
    LET cl == CloudOf(w, c)
    IN /\ cl.live
       /\ cl.storage_ # Null
       /\ w.heap[cl.storage_].used
       /\ w.heap[cl.storage_].size_ = cl.size_
       /\ w.heap[cl.storage_].fields_ = cl.fields_
       /\ CheckInvariants(w.heap[cl.storage_])

\* this step is a call of op, made between two statements
Called(op) == Idle /\ last'.op = op

(***************************************************************************)
(* C1: in every reachable state, every field present in a cloud's field    *)
(* set has a buffer of exactly size() columns, and the cloud's size is the *)
(* size its Storage records.                                               *)
(***************************************************************************)
C1_BuffersMatchSize ==
    \A c \in CloudIds :
        clouds[c].live =>
            /\ clouds[c].storage_ \in StorageIds
            /\ clouds[c].size_ = heap[clouds[c].storage_].size_
            /\ \A f \in clouds[c].fields_ :
                   Len(Buf(heap[clouds[c].storage_], f)) = clouds[c].size_

\* a move-assignment between two non-empty clouds has happened
C1_Witness ==
    /\ last.op = "MoveAssign" /\ last.outcome = "ok"
    /\ last.self # last.other
    /\ clouds[last.self].size_ = MaxSize
    /\ heap[clouds[last.other].storage_].fields_ = kXYZs \cup kNormals

(***************************************************************************)
(* C2: constructing a cloud with field set None or Inherit fails and       *)
(* creates no cloud, and no existing cloud (a moved-from one and the       *)
(* result of Crop, Concatenate or VoxelizedDownSample included) has field  *)
(* set None or Inherit.                                                    *)
(***************************************************************************)
C2_NoEmptyOrInheritFieldSet ==
    /\ \A c \in CloudIds :
          clouds[c].live =>
              clouds[c].fields_ # kNone /\ clouds[c].fields_ # kInherit
    /\ (last.op = "Construct" /\ last.fields \in {kNone, kInherit}) =>
          last.outcome # "ok" /\ ~clouds[last.self].live

\* a construction with kInherit was refused while another cloud exists
C2_Witness ==
    /\ last.op = "Construct" /\ last.fields = kInherit
    /\ last.outcome = "EmptyOrReservedFieldSet"
    /\ \E c \in Vars : clouds[c].live

(***************************************************************************)
(* C3: every live cloud owns a non-null Storage, no Storage is owned by    *)
(* two clouds, and a move construction or move assignment hands the        *)
(* source's Storage object itself, unchanged, to the destination.          *)
(***************************************************************************)
ExclusivelyOwned ==
    /\ \A c \in CloudIds :
          clouds[c].live =>
              clouds[c].storage_ # Null /\ heap[clouds[c].storage_].used
    /\ \A c \in CloudIds, d \in CloudIds :
          (c # d /\ clouds[c].live /\ clouds[d].live) =>
              clouds[c].storage_ # clouds[d].storage_

\* this step is a successful move from one cloud into another
Moved ==
    /\ Called("MoveConstruct") \/ Called("MoveAssign")
    /\ last'.outcome = "ok"
    /\ last'.self # last'.other

StorageTransferred ==
    Moved =>
        /\ clouds'[last'.self].storage_ = clouds[last'.other].storage_
        /\ heap'[clouds[last'.other].storage_] =
               heap[clouds[last'.other].storage_]

C3_StorageExclusivelyOwned ==
    [](ExclusivelyOwned) /\ [][StorageTransferred]_vars

\* a non-empty cloud was move-constructed from
C3_Witness ==
    /\ last.op = "MoveConstruct" /\ last.outcome = "ok"
    /\ clouds[last.self].size_ > 0
    /\ clouds[last.other].live

(***************************************************************************)
(* C4: after a successful move construction from other, or move assignment *)
(* of other into a cloud with an equal field set, the destination has the  *)
(* size and per-field columns other had, and other is a valid cloud of     *)
(* size 0 with its original field set.                                     *)
(***************************************************************************)
MoveLeavesSourceEmpty ==
    Moved =>
        /\ View(World', last'.self) = View(World, last'.other)
        /\ Valid(World', last'.self)
        /\ Valid(World', last'.other)
        /\ View(World', last'.other).size = 0
        /\ View(World', last'.other).fields = View(World, last'.other).fields

C4_MoveTransfersData == [][MoveLeavesSourceEmpty]_vars

\* a move construction emptied a cloud that had MaxSize points
C4_Witness ==
    /\ last.op = "MoveConstruct" /\ last.outcome = "ok"
    /\ clouds[last.self].size_ = MaxSize
    /\ clouds[last.self].fields_ = kXYZs \cup kNormals
    /\ clouds[last.other].size_ = 0

(***************************************************************************)
(* C5: move-assigning B into A when A's field set differs from B's fails   *)
(* with a field-set mismatch and leaves A and B as they were.              *)
(***************************************************************************)
MoveAssignMismatchFails ==
    (/\ Called("MoveAssign")
     /\ clouds[last'.self].fields_ # clouds[last'.other].fields_) =>
        /\ last'.outcome = "FieldSetMismatch"
        /\ clouds' = clouds
        /\ heap' = heap

C5_MoveAssignRequiresExactFields == [][MoveAssignMismatchFails]_vars

\* a move assignment between non-empty clouds was refused
C5_Witness ==
    /\ last.op = "MoveAssign" /\ last.outcome = "FieldSetMismatch"
    /\ clouds[last.self].size_ > 0
    /\ clouds[last.other].size_ > 0

(***************************************************************************)
(* C7: SetFrom(other, fields, allow_resize = false) on clouds of different *)
(* sizes fails with a size mismatch and leaves the receiving cloud's size  *)
(* and per-field data unchanged.                                           *)
(***************************************************************************)
SetFromSizeMismatchFails ==
    (/\ Called("SetFrom")
     /\ ~last'.flag
     /\ clouds[last'.self].size_ # clouds[last'.other].size_) =>
        /\ last'.outcome = "SizeMismatch"
        /\ View(World', last'.self) = View(World, last'.self)
        /\ Valid(World', last'.self)

C7_SetFromNoResizeSizeMismatch == [][SetFromSizeMismatchFails]_vars

\* SetFrom without resize was refused on a full receiver and an empty source
C7_Witness ==
    /\ last.op = "SetFrom" /\ ~last.flag
    /\ last.outcome = "SizeMismatch"
    /\ clouds[last.self].size_ = MaxSize
    /\ clouds[last.other].size_ = 0
    /\ last.fields = kXYZs

(***************************************************************************)
(* C6: when SetFrom(other, fields, allow_resize = true) fails its field    *)
(* check, the receiving cloud keeps the size and per-field data it had.    *)
(***************************************************************************)
SetFromFieldCheckFailed ==
    /\ Called("SetFrom")
    /\ last'.flag
    /\ last'.outcome \in {"FieldSetMismatch", "MissingFields"}

C6_SetFromFailsBeforeMutation ==
    [][SetFromFieldCheckFailed =>
          View(World', last'.self) = View(World, last'.self)]_vars

(***************************************************************************)
(* C8: copy-constructing from other with copy_fields Inherit or a          *)
(* non-empty subset of other's fields succeeds; the new cloud has the      *)
(* resolved field set, other's size and, for every field of that set,      *)
(* other's columns; other is unchanged.                                    *)
(***************************************************************************)
CopyConstructCopies ==
    (/\ Called("CopyConstruct")
     /\ \/ last'.fields = kInherit
        \/ /\ last'.fields # {}
           /\ last'.fields \subseteq clouds[last'.other].fields_) =>
        LET src == View(World, last'.other)
            resolved == IF last'.fields = kInherit THEN src.fields
                        ELSE last'.fields
        IN /\ last'.outcome = "ok"
           /\ clouds'[last'.self].live
           /\ View(World', last'.self).fields = resolved
           /\ View(World', last'.self).size = src.size
           /\ \A f \in resolved :
                 Buf(StorageOf(World', last'.self), f) =
                     Buf(StorageOf(World, last'.other), f)
           /\ View(World', last'.other) = src

C8_CopyConstructSubset == [][CopyConstructCopies]_vars

(***************************************************************************)
(* C9: for a non-empty sequence of clouds with one and the same field set, *)
(* Concatenate returns a cloud with that field set, whose size is the sum  *)
(* of the inputs' sizes and whose columns, for every present field, are    *)
(* the inputs' columns laid out contiguously in input order.               *)
(***************************************************************************)
RECURSIVE Joined(_, _, _)
\* the columns of field f of the clouds of seq, one cloud after the other
Joined(w, seq, f) ==
    IF seq = <<>> THEN <<>>
    ELSE Buf(StorageOf(w, Head(seq)), f) \o Joined(w, Tail(seq), f)

ConcatenateJoins ==
    (/\ Called("Concatenate")
     /\ last'.seq # <<>>
     /\ \A i \in 1..Len(last'.seq) :
           clouds[last'.seq[i]].fields_ = clouds[last'.seq[1]].fields_) =>
        /\ last'.outcome = "ok"
        /\ clouds'[Ret].live
        /\ clouds'[Ret].fields_ = clouds[last'.seq[1]].fields_
        /\ clouds'[Ret].size_ = SumSizes(World, last'.seq)
        /\ \A f \in clouds'[Ret].fields_ :
              Buf(StorageOf(World', Ret), f) = Joined(World, last'.seq, f)

C9_ConcatenateLaysOutInputs == [][ConcatenateJoins]_vars

(***************************************************************************)
(* Crop on its own: Init draws the cloud a from every field set and every  *)
(* content of up to MaxCropSize points, and the program crops it.          *)
(***************************************************************************)
MaxCropSize == 3

CropFieldInputs ==
    { kXYZs \cup kNormals, kXYZs \cup kRGBs \cup kDescriptor, kNormals }

InitCrop ==
    \E fields \in CropFieldInputs, n \in 0..MaxCropSize :
        \E st \in Storage_ctor(n, fields) :
            /\ clouds = [c \in CloudIds |->
                           IF c = "a"
                           THEN [live |-> TRUE, size_ |-> n, fields_ |-> fields,
                                 storage_ |-> 1]
                           ELSE NoCloud]
            /\ heap \in SettleHeap([s \in StorageIds |->
                                      IF s = 1 THEN st ELSE NoStorage], 1)
            /\ last = NoArgs

NextCrop == Crop \/ Continue

SpecCrop == InitCrop /\ [][NextCrop]_vars

(***************************************************************************)
(* C10: for a cloud with Positions and lower <= upper on every axis,       *)
(* Crop(lower, upper) returns a new cloud with the same field set holding  *)
(* exactly the points with lower <= p <= upper on all three axes, in their *)
(* original relative order, each with its own normal, color and            *)
(* descriptor; the source cloud is unchanged.                              *)
(***************************************************************************)
\* the indices, in increasing order, of the points of view v in the box
IndicesWithin(v, lower, upper) ==
    LET within(i) ==
            /\ lower[1] <= v.xyzs[i][1] /\ v.xyzs[i][1] <= upper[1]
            /\ lower[2] <= v.xyzs[i][2] /\ v.xyzs[i][2] <= upper[2]
            /\ lower[3] <= v.xyzs[i][3] /\ v.xyzs[i][3] <= upper[3]
    IN SelectSeq([i \in 1..v.size |-> i], within)

\* the columns of buf at the indices idx, when the field is present
Picked(present, buf, idx) ==
    IF present THEN [j \in 1..Len(idx) |-> buf[idx[j]]] ELSE <<>>

CropKeepsPointsInBox ==
    (/\ Called("Crop")
     /\ has_xyzs(clouds[last'.self])
     /\ \A k \in 1..3 : last'.lower[k] <= last'.upper[k]) =>
        LET src == View(World, last'.self)
            idx == IndicesWithin(src, last'.lower, last'.upper)
        IN /\ last'.outcome = "ok"
           /\ Valid(World', Ret)
           /\ View(World', Ret) =
                [size |-> Len(idx), fields |-> src.fields,
                 xyzs |-> Picked(TRUE, src.xyzs, idx),
                 normals |-> Picked("Normals" \in src.fields, src.normals, idx),
                 rgbs |-> Picked("RGBs" \in src.fields, src.rgbs, idx),
                 descriptors |->
                     Picked("Descriptor" \in src.fields, src.descriptors, idx)]
           /\ View(World', last'.self) = src

C10_CropKeepsPointsInBox == [][CropKeepsPointsInBox]_vars

\* Crop kept the first and the last of three points and dropped the middle
\* one, carrying colors and descriptors that differ between the two
C10_Witness ==
    /\ last.op = "Crop" /\ last.outcome = "ok"
    /\ clouds[last.self].size_ = 3
    /\ clouds[last.self].fields_ = kXYZs \cup kRGBs \cup kDescriptor
    /\ clouds[Ret].size_ = 2
    /\ LET src == heap[clouds[last.self].storage_]
           out == heap[clouds[Ret].storage_]
       IN /\ src.xyzs_[1] # src.xyzs_[2]
          /\ out.xyzs_ = <<src.xyzs_[1], src.xyzs_[3]>>
          /\ src.descriptors_[1] # src.descriptors_[3]
          /\ src.rgbs_[1] # src.rgbs_[3]

(***************************************************************************)
(* VoxelizedDownSample on its own: Init draws the cloud a from every field *)
(* set and every content of up to MaxVoxelSize points, positions, normals  *)
(* and descriptors with a non-finite entry included, and the program       *)
(* down-samples it.                                                        *)
(***************************************************************************)
MaxVoxelSize == 3

VoxelFieldInputs ==
    { kXYZs \cup kNormals, kXYZs \cup kRGBs, kXYZs \cup kDescriptor, kNormals }

VoxelXyzCols == { <<12, 0, 12>>, <<24, 0, 0>>, <<0, NonFinite, 0>> }
VoxelNormalCols == { <<0, 0, 12>>, <<12, 0, 0>>, <<NonFinite, 0, 0>> }
VoxelRgbCols == { <<0, 0, 0>>, <<3, 1, 1>> }
VoxelDescCols == { <<0>>, <<12>>, <<NonFinite>> }

\* the contents of a buffer of n columns, or of the buffer of an absent field
VoxelBufs(present, n, cols) == IF present THEN [1..n -> cols] ELSE { <<>> }

InitVoxel ==
    \E fields \in VoxelFieldInputs, n \in 0..MaxVoxelSize :
        \E x \in VoxelBufs(contains(fields, kXYZs), n, VoxelXyzCols),
           nr \in VoxelBufs(contains(fields, kNormals), n, VoxelNormalCols),
           r \in VoxelBufs(contains(fields, kRGBs), n, VoxelRgbCols),
           d \in VoxelBufs(has_descriptor(fields), n, VoxelDescCols) :
            /\ clouds = [c \in CloudIds |->
                           IF c = "a"
                           THEN [live |-> TRUE, size_ |-> n, fields_ |-> fields,
                                 storage_ |-> 1]
                           ELSE NoCloud]
            /\ heap = [s \in StorageIds |->
                         IF s = 1
                         THEN [used |-> TRUE, fields_ |-> fields, size_ |-> n,
                               xyzs_ |-> x, normals_ |-> nr, rgbs_ |-> r,
                               descriptors_ |-> d]
                         ELSE NoStorage]
            /\ last = NoArgs

NextVoxel == VoxelizedDownSample \/ Continue

SpecVoxel == InitVoxel /\ [][NextVoxel]_vars

(***************************************************************************)
(* C11: for a cloud with Positions and voxel_size > 0, VoxelizedDownSample *)
(* returns a cloud with the same field set, with one point per distinct    *)
(* voxel coordinate floor((p - per-axis minimum over the finite points) /  *)
(* voxel_size) occupied by a point whose position is entirely finite; each *)
(* such point belongs to the bucket of exactly one output point, a point   *)
(* with a non-finite position to none, and each output position is the     *)
(* arithmetic mean of the positions of its bucket.                         *)
(***************************************************************************)
\* the points of view v whose position is entirely finite
FinitePositions(v) ==
    { i \in 1..v.size : \A k \in 1..3 : v.xyzs[i][k] # NonFinite }

\* per axis, the least coordinate among those points
AxisMinimum(v) ==
    [k \in 1..3 |->
        CHOOSE m \in { v.xyzs[i][k] : i \in FinitePositions(v) } :
            \A i \in FinitePositions(v) : m <= v.xyzs[i][k]]

\* floor((p - minimum) / voxel_size), per axis
VoxelOf(p, minimum, voxel_size) ==
    [k \in 1..3 |-> (p[k] - minimum[k]) \div voxel_size]

\* the voxel of every point with a finite position
VoxelOfPoints(v, voxel_size) ==
    LET minimum == AxisMinimum(v)
    IN [i \in FinitePositions(v) |-> VoxelOf(v.xyzs[i], minimum, voxel_size)]

\* the bucket of a voxel: the finite points whose voxel coordinate it is
PointsIn(voxel_of, voxel) == { i \in DOMAIN voxel_of : voxel_of[i] = voxel }

RECURSIVE SumOver(_, _, _)
\* the sum of row k of the columns of buf at the indices of the set S
SumOver(buf, S, k) ==
    IF S = {} THEN 0
    ELSE LET i == CHOOSE x \in S : TRUE
         IN buf[i][k] + SumOver(buf, S \ {i}, k)

\* col is the arithmetic mean of the columns of buf at the indices of S
IsMeanOf(col, buf, S) ==
    \A k \in DOMAIN col :
        col[k] # NonFinite /\ col[k] * Cardinality(S) = SumOver(buf, S, k)

\* this step is a down-sampling of a cloud with Positions by a positive size
DownSampled ==
    /\ Called("VoxelizedDownSample")
    /\ has_xyzs(clouds[last'.self])
    /\ last'.n > 0

\* out holds one point per occupied voxel of src, at the mean position of
\* the voxel's bucket
OnePointPerVoxel(src, out, voxel_of) ==
    LET voxels == { voxel_of[i] : i \in DOMAIN voxel_of }
    IN /\ out.size = Cardinality(voxels)
       /\ \E place \in [1..out.size -> voxels] :
             /\ \A i, j \in 1..out.size : place[i] = place[j] => i = j
             /\ \A j \in 1..out.size :
                   \A bucket \in { PointsIn(voxel_of, place[j]) } :
                       IsMeanOf(out.xyzs[j], src.xyzs, bucket)

VoxelizedDownSampleMeans ==
    DownSampled =>
        /\ last'.outcome = "ok"
        /\ Valid(World', Ret)
        /\ \A src \in { View(World, last'.self) }, out \in { View(World', Ret) } :
              /\ out.fields = src.fields
              /\ \A voxel_of \in { VoxelOfPoints(src, last'.n) } :
                    OnePointPerVoxel(src, out, voxel_of)

C11_VoxelizedDownSampleMeans == [][VoxelizedDownSampleMeans]_vars

\* two points that differ fell into one voxel, a third has a non-finite
\* position, and the one output point lies midway between the first two
C11_Witness ==
    /\ last.op = "VoxelizedDownSample" /\ last.outcome = "ok"
    /\ clouds[last.self].size_ = 3
    /\ clouds[Ret].live /\ clouds[Ret].size_ = 1
    /\ LET src == heap[clouds[last.self].storage_]
       IN /\ \E i \in 1..3 : ~isFinite(src.xyzs_[i])
          /\ \E i, j \in 1..3 :
                isFinite(src.xyzs_[i]) /\ isFinite(src.xyzs_[j])
                /\ src.xyzs_[i] # src.xyzs_[j]
    /\ heap[clouds[Ret].storage_].xyzs_ = << <<18, 0, 6>> >>

(***************************************************************************)
(* C12: resize(new_count) with new_count >= 0 succeeds, leaves the field   *)
(* set unchanged and keeps, for every present field, the columns of the    *)
(* overlapping prefix [0, min(old_count, new_count)) exactly; resizing to  *)
(* n1 and then to n2 <= n1 leaves the first n2 columns that existed before *)
(* either resize unchanged.                                                *)
(***************************************************************************)
Min(x, y) == IF x <= y THEN x ELSE y

\* the first n columns of every present field of cloud c are the same in
\* the worlds w and w2
SamePrefix(w, w2, c, n) ==
    /\ CloudOf(w2, c).fields_ = CloudOf(w, c).fields_
    /\ \A f \in CloudOf(w, c).fields_ :
          SubSeq(Buf(StorageOf(w2, c), f), 1, n) =
              SubSeq(Buf(StorageOf(w, c), f), 1, n)

ResizeKeepsPrefix ==
    (Called("resize") /\ last'.n >= 0) =>
        /\ last'.outcome = "ok"
        /\ Valid(World', last'.self)
        /\ clouds'[last'.self].size_ = last'.n
        /\ SamePrefix(World, World', last'.self,
                      Min(clouds[last'.self].size_, last'.n))

\* between two statements: whatever two resizes n1 >= n2 the program makes
\* next on a cloud, the columns below n2 that the cloud has now are kept
ResizeTwiceKeepsPrefix ==
    Idle =>
        \A c \in Vars, n1 \in 0..MaxSize, n2 \in 0..MaxSize,
           skip1 \in BOOLEAN, skip2 \in BOOLEAN :
            (Live(c) /\ n2 <= n1) =>
                \A r1 \in PointCloud_resize(World, c, n1, skip1) :
                    \A r2 \in PointCloud_resize(r1, c, n2, skip2) :
                        /\ r1.outcome = "ok" /\ r2.outcome = "ok"
                        /\ CloudOf(r2, c).size_ = n2
                        /\ SamePrefix(World, r2, c, Min(clouds[c].size_, n2))

C12_ResizeKeepsPrefix ==
    [](ResizeTwiceKeepsPrefix) /\ [][ResizeKeepsPrefix]_vars

\* a resize to one point, with initialization, of a cloud with Positions
\* and Normals left a first column that is not the default in either field
C12_Witness ==
    /\ last.op = "resize" /\ last.outcome = "ok"
    /\ last.n = 1 /\ ~last.flag
    /\ clouds[last.self].fields_ = kXYZs \cup kNormals
    /\ heap[clouds[last.self].storage_].xyzs_ = << <<12, 0, 12>> >>
    /\ heap[clouds[last.self].storage_].normals_ = << <<0, 0, 12>> >>

(***************************************************************************)
(* C13: when a cloud grows from size s to n > s through resize(n) or       *)
(* Expand(n - s) without skip_initialize, every column in [s, n) of every  *)
(* present field holds the default (zero for positions, normals and        *)
(* descriptors, the default color for colors); and Expand(add_count) with  *)
(* add_count >= 0 ends as resize(size() + add_count) with the same         *)
(* skip_initialize ends.                                                   *)
(***************************************************************************)
\* the documented default of a column of field f
DefaultCol(f) ==
    CASE f = "XYZs" -> <<0, 0, 0>>
      [] f = "Normals" -> <<0, 0, 0>>
      [] f = "RGBs" -> <<kDefaultColor, kDefaultColor, kDefaultColor>>
      [] f = "Descriptor" -> <<0>>

\* the size this step's resize or Expand asks for
AskedSize ==
    IF last'.op = "Expand" THEN clouds[last'.self].size_ + last'.n
    ELSE last'.n

GrowthFillsDefaults ==
    (/\ Called("resize") \/ Called("Expand")
     /\ ~last'.flag
     /\ last'.n >= 0
     /\ AskedSize > clouds[last'.self].size_) =>
        /\ last'.outcome = "ok"
        /\ Valid(World', last'.self)
        /\ clouds'[last'.self].size_ = AskedSize
        /\ \A f \in clouds[last'.self].fields_ :
              \A i \in (clouds[last'.self].size_ + 1)..AskedSize :
                  Buf(StorageOf(World', last'.self), f)[i] = DefaultCol(f)

ExpandEndsAsResize ==
    (Called("Expand") /\ last'.n >= 0) =>
        \E r \in PointCloud_resize(World, last'.self,
                                   clouds[last'.self].size_ + last'.n,
                                   last'.flag) :
            /\ last'.outcome = r.outcome
            /\ clouds' = r.clouds
            /\ heap' \in SettleHeap(r.heap, 1)

C13_GrowthFillsDefaults ==
    [][GrowthFillsDefaults /\ ExpandEndsAsResize]_vars

\* Expand added a point, with initialization, to a cloud of one point whose
\* position and normal are not the default
C13_Witness ==
    /\ last.op = "Expand" /\ last.outcome = "ok"
    /\ last.n = 1 /\ ~last.flag
    /\ clouds[last.self].fields_ = kXYZs \cup kNormals
    /\ heap[clouds[last.self].storage_].xyzs_ = << <<12, 0, 12>>, <<0, 0, 0>> >>
    /\ heap[clouds[last.self].storage_].normals_ =
           << <<0, 0, 12>>, <<0, 0, 0>> >>

(***************************************************************************)
(* C14: SetFrom(other, fields) with an explicit field set (without         *)
(* Inherit) that both clouds contain, called when size() equals            *)
(* other.size(), succeeds; afterwards the receiver's columns of every      *)
(* field in `fields` are other's, its columns of every field outside       *)
(* `fields` are what they were, and its field set, its size and `other`    *)
(* are unchanged.                                                          *)
(***************************************************************************)
SetFromExplicitFields ==
    /\ Called("SetFrom")
    /\ ~contains(last'.fields, kInherit)
    /\ last'.fields \subseteq clouds[last'.self].fields_
    /\ last'.fields \subseteq clouds[last'.other].fields_
    /\ clouds[last'.self].size_ = clouds[last'.other].size_

SetFromCopiesOnlyRequested ==
    SetFromExplicitFields =>
        /\ last'.outcome = "ok"
        /\ Valid(World', last'.self)
        /\ clouds'[last'.self].fields_ = clouds[last'.self].fields_
        /\ clouds'[last'.self].size_ = clouds[last'.self].size_
        /\ \A f \in last'.fields :
              Buf(StorageOf(World', last'.self), f) =
                  Buf(StorageOf(World, last'.other), f)
        /\ \A f \in clouds[last'.self].fields_ \ last'.fields :
              Buf(StorageOf(World', last'.self), f) =
                  Buf(StorageOf(World, last'.self), f)
        /\ View(World', last'.other) = View(World, last'.other)

C14_SetFromCopiesOnlyRequested == [][SetFromCopiesOnlyRequested]_vars

\* SetFrom of the Positions alone, between two clouds of MaxSize points with
\* Positions and Normals, left the clouds with equal positions and with
\* normals that differ
C14_Witness ==
    /\ last.op = "SetFrom" /\ last.outcome = "ok"
    /\ last.fields = kXYZs
    /\ last.self # last.other
    /\ clouds[last.self].fields_ = kXYZs \cup kNormals
    /\ clouds[last.other].fields_ = kXYZs \cup kNormals
    /\ clouds[last.self].size_ = MaxSize
    /\ LET dst == heap[clouds[last.self].storage_]
           src == heap[clouds[last.other].storage_]
       IN /\ dst.xyzs_ = src.xyzs_
          /\ dst.xyzs_[1] # dst.xyzs_[2]
          /\ \A i \in 1..MaxSize : dst.normals_[i] # src.normals_[i]

(***************************************************************************)
(* C15: negative sizes are rejected: Construct with count < 0, resize with *)
(* new_count < 0 and Expand with add_count < 0 each fail with an           *)
(* InvalidArgument failure, the failed call creates and modifies no cloud, *)
(* and no cloud in any reachable state has a negative size.                *)
(***************************************************************************)
\* the call failed a check of its argument: a DRAKE_THROW_UNLESS that threw
\* or a DRAKE_DEMAND that stopped the program
InvalidArgument(outcome) == outcome \in {"InvalidArgument", "abort"}

\* this step is a call that is handed a negative size
NegativeSizeCall ==
    /\ last'.n < 0
    /\ \/ /\ Called("Construct")
          /\ last'.fields # kNone /\ ~contains(last'.fields, kInherit)
       \/ Called("resize")
       \/ Called("Expand")

NegativeSizeRejected ==
    NegativeSizeCall =>
        /\ InvalidArgument(last'.outcome)
        /\ clouds' = clouds
        /\ heap' = heap

NoNegativeSize == \A c \in CloudIds : clouds[c].size_ >= 0

C15_NegativeSizesRejected ==
    [](NoNegativeSize) /\ [][NegativeSizeRejected]_vars

(***************************************************************************)
(* C16: for every count >= 0 and every field set that is not empty and     *)
(* holds no Inherit, the constructed cloud reports size() = count, has     *)
(* every field of the requested set and no other, has no buffer column for *)
(* an absent field and, unless skip_initialize is set, holds the default   *)
(* in every column of every present field.                                 *)
(***************************************************************************)
ValidConstruction ==
    /\ Called("Construct")
    /\ last'.n >= 0
    /\ last'.fields # kNone
    /\ ~contains(last'.fields, kInherit)

ConstructMakesCloud ==
    ValidConstruction =>
        /\ last'.outcome = "ok"
        /\ Valid(World', last'.self)
        /\ clouds'[last'.self].size_ = last'.n
        /\ \A f \in DataFields :
              HasFields(clouds'[last'.self], {f}) <=> f \in last'.fields
        /\ \A f \in last'.fields :
              Len(Buf(StorageOf(World', last'.self), f)) = last'.n
        /\ \A f \in DataFields \ last'.fields :
              Len(Buf(StorageOf(World', last'.self), f)) = 0
        /\ ~last'.flag =>
              \A f \in last'.fields, i \in 1..last'.n :
                  Buf(StorageOf(World', last'.self), f)[i] = DefaultCol(f)

C16_ConstructMakesCloud == [][ConstructMakesCloud]_vars

\* a cloud of MaxSize points with Positions and Normals was constructed,
\* with initialization, while the other variable holds a cloud with Colors
C16_Witness ==
    /\ last.op = "Construct" /\ last.outcome = "ok"
    /\ last.n = MaxSize /\ ~last.flag
    /\ last.fields = kXYZs \cup kNormals
    /\ clouds[last.self].live /\ clouds[last.self].size_ = MaxSize
    /\ \E c \in Vars : clouds[c].live /\ clouds[c].fields_ = kRGBs

(***************************************************************************)
(* C17: in VoxelizedDownSample each output point's normal (and likewise    *)
(* its descriptor) is the mean of only the finite-valued normals of the    *)
(* points of its voxel bucket, the divisor being the number of those; a    *)
(* point with a non-finite normal and a finite position still counts in    *)
(* the bucket's position and color averages, whose divisor is the full     *)
(* bucket size.  This holds for every bucket, one in which no point has a  *)
(* finite normal included.                                                 *)
(***************************************************************************)
\* the indices of S whose column of buf is entirely finite
FiniteIn(buf, S) ==
    { i \in S : \A k \in DOMAIN buf[i] : buf[i][k] # NonFinite }

\* col is the mean of the color columns of buf at the indices of S, the
\* quotient cut to a whole number
IsColorMeanOf(col, buf, S) ==
    \A k \in DOMAIN col : col[k] = SumOver(buf, S, k) \div Cardinality(S)

\* output point j of out is the average of the bucket, field by field
AveragesBucket(src, out, j, bucket) ==
    /\ IsMeanOf(out.xyzs[j], src.xyzs, bucket)
    /\ "RGBs" \in src.fields => IsColorMeanOf(out.rgbs[j], src.rgbs, bucket)
    /\ "Normals" \in src.fields =>
          IsMeanOf(out.normals[j], src.normals, FiniteIn(src.normals, bucket))
    /\ "Descriptor" \in src.fields =>
          IsMeanOf(out.descriptors[j], src.descriptors,
                   FiniteIn(src.descriptors, bucket))

EveryPointAveragesItsBucket(src, out, voxel_of) ==
    LET voxels == { voxel_of[i] : i \in DOMAIN voxel_of }
    IN /\ out.size = Cardinality(voxels)
       /\ \E place \in [1..out.size -> voxels] :
             /\ \A i, j \in 1..out.size : place[i] = place[j] => i = j
             /\ \A j \in 1..out.size :
                   \A bucket \in { PointsIn(voxel_of, place[j]) } :
                       AveragesBucket(src, out, j, bucket)

FiniteOnlyMeans ==
    DownSampled =>
        /\ last'.outcome = "ok"
        /\ \A src \in { View(World, last'.self) }, out \in { View(World', Ret) } :
              \A voxel_of \in { VoxelOfPoints(src, last'.n) } :
                  EveryPointAveragesItsBucket(src, out, voxel_of)

C17_FiniteOnlyMeans == [][FiniteOnlyMeans]_vars

====
